---- MODULE Spec2Model ----
(***************************************************************************)
(* A model of generate_sprites.py: the hand-written PNG encoder            *)
(* (create_png, create_chunk, create_image_from_pixels) together with the  *)
(* two library routines it calls, zlib.crc32 and zlib.compress(data, 9).   *)
(*                                                                         *)
(* Byte strings are sequences of integers 0..255.  A 32-bit word is kept   *)
(* as its four base-256 digits, most significant first, because a CRC does *)
(* not fit the model checker's integers; that is also the byte order of    *)
(* struct.pack('>I', ...).                                                 *)
(***************************************************************************)
EXTENDS Integers, Sequences, FiniteSets, TLC

(***************************************************************************)
(* Bounds of the explored inputs.                                          *)
(***************************************************************************)
MaxDim == 2

MaxRows == 2

MaxPixels == 3

MaxPayload == 3

MaxFrames == 7

MaxCell == 2

MaxSheetPixels == 24

MaxLine == 2

MaxLines == 2

(***************************************************************************)
(* Bit and byte arithmetic.                                                *)
(***************************************************************************)
RECURSIVE BitXor(_, _, _)
BitXor(a, b, n) ==
    IF n = 0 THEN 0
    ELSE (((a % 2) + (b % 2)) % 2) + 2 * BitXor(a \div 2, b \div 2, n - 1)

XorTable == [a \in 0..255 |-> [b \in 0..255 |-> BitXor(a, b, 8)]]

XorB(a, b) == XorTable[a][b]

XorW(u, v) == <<XorB(u[1], v[1]), XorB(u[2], v[2]), XorB(u[3], v[3]), XorB(u[4], v[4])>>

Shr1(w) ==
    << w[1] \div 2,
       (w[2] \div 2) + 128 * (w[1] % 2),
       (w[3] \div 2) + 128 * (w[2] % 2),
       (w[4] \div 2) + 128 * (w[3] % 2) >>

Shr8(w) == <<0, w[1], w[2], w[3]>>

(***************************************************************************)
(* zlib.crc32: the reflected CRC-32 of polynomial 0xEDB88320, register     *)
(* initialised to all ones, result complemented.                           *)
(***************************************************************************)
CrcPoly == <<237, 184, 131, 32>>

AllOnes == <<255, 255, 255, 255>>

CrcShift(c) == IF c[4] % 2 = 1 THEN XorW(CrcPoly, Shr1(c)) ELSE Shr1(c)

CrcTable ==
    [n \in 0..255 |->
        CrcShift(CrcShift(CrcShift(CrcShift(
        CrcShift(CrcShift(CrcShift(CrcShift(<<0, 0, 0, n>>))))))))]

\* CrcUpdate with the table indexed by the register alone: the byte is
\* never mixed in.
CrcUpdateRegisterOnly(c, byte) == XorW(CrcTable[c[4]], Shr8(c))

CrcUpdate(c, byte) == XorW(CrcTable[XorB(c[4], byte)], Shr8(c))

\* The loop over the bytes: s.reg is the register before byte s.pos.
RECURSIVE CrcRun(_, _)
CrcRun(data, s) ==
    IF s.pos > Len(data) THEN s.reg
    ELSE CrcRun(data, [pos |-> s.pos + 1, reg |-> CrcUpdate(s.reg, data[s.pos])])

crc32(data) == XorW(CrcRun(data, [pos |-> 1, reg |-> AllOnes]), AllOnes)

(***************************************************************************)
(* zlib.compress(data, 9).  The stream is the two header bytes 78 DA, the  *)
(* DEFLATE data, and the Adler-32 of the input, most significant byte      *)
(* first.  At level 9 zlib runs deflate_slow: lazy LZ77 matching over the  *)
(* hash chains, minimum match 3, maximum 258, the most recent of the       *)
(* longest candidates, window position 0 never a candidate (it is the NIL  *)
(* of the hash chains).  For inputs of the sizes explored here the block   *)
(* selection of zlib always ends in one final block coded with the fixed   *)
(* Huffman codes, and that is the block written below.                     *)
(***************************************************************************)
MinMatch == 3

MaxMatch == 258

TooFar == 4096

AdlerBase == 65521

Max(S) == CHOOSE m \in S : \A e \in S : e <= m

Min(S) == CHOOSE m \in S : \A e \in S : m <= e

\* The loop over the bytes: the sums s.a and s.b before byte s.pos.
RECURSIVE AdlerRun(_, _)
AdlerRun(data, s) ==
    IF s.pos > Len(data) THEN s
    ELSE LET a == (s.a + data[s.pos]) % AdlerBase
         IN  AdlerRun(data, [pos |-> s.pos + 1, a |-> a, b |-> (s.b + a) % AdlerBase])

adler32(data) ==
    LET s == AdlerRun(data, [pos |-> 1, a |-> 1, b |-> 0])
    IN  <<s.b \div 256, s.b % 256, s.a \div 256, s.a % 256>>

\* Number of equal bytes of data from indices q and i on, at most limit.
MatchLen(data, q, i, limit) ==
    Min({k \in 0..(limit - 1) : data[q + k] # data[i + k]} \cup {limit})

\* longest_match: the longest candidate strictly longer than prev_length,
\* <<length, start>>; <<prev_length, 0>> when there is none.
LongestMatch(data, i, prev_length) ==
    LET lookahead == Len(data) - i + 1
        limit == IF lookahead < MaxMatch THEN lookahead ELSE MaxMatch
        lens == [q \in 2..(i - 1) |-> MatchLen(data, q, i, limit)]
        best == Max({lens[q] : q \in 2..(i - 1)} \cup {prev_length})
    IN  IF best > prev_length
        THEN <<best, Max({q \in 2..(i - 1) : lens[q] = best})>>
        ELSE <<prev_length, 0>>

Literal(b) == [lit |-> b, len |-> 0, dist |-> 0]

Match(l, d) == [lit |-> 0, len |-> l, dist |-> d]

\* The matcher's state: strstart (as a 1-based index), match_length,
\* match_start, match_available, and the tokens tallied so far.
DeflateStart ==
    [strstart |-> 1, match_length |-> MinMatch - 1, match_start |-> 0,
     match_available |-> FALSE, out |-> <<>>]

\* One turn of the loop of deflate_slow.
DeflateStep(data, s) ==
    LET i == s.strstart
        lookahead == Len(data) - i + 1
        prev_length == s.match_length
        prev_match == s.match_start
        found == IF lookahead >= MinMatch /\ prev_length < MaxMatch
                 THEN LongestMatch(data, i, prev_length)
                 ELSE <<prev_length, 0>>
        hit == found[2] # 0
               /\ ~(found[1] = MinMatch /\ i - found[2] > TooFar)
        new_length == IF hit THEN found[1] ELSE MinMatch - 1
        new_start == IF found[2] # 0 THEN found[2] ELSE prev_match
    IN  IF prev_length >= MinMatch /\ new_length <= prev_length
        THEN [strstart |-> i + prev_length - 1, match_length |-> MinMatch - 1,
              match_start |-> new_start, match_available |-> FALSE,
              out |-> Append(s.out, Match(prev_length, i - 1 - prev_match))]
        ELSE [strstart |-> i + 1, match_length |-> new_length,
              match_start |-> new_start, match_available |-> TRUE,
              out |-> IF s.match_available
                      THEN Append(s.out, Literal(data[i - 1]))
                      ELSE s.out]

\* The loop of deflate_slow, to the end of the input; the literal still
\* pending then is tallied last.
RECURSIVE DeflateSlow(_, _)
DeflateSlow(data, s) ==
    IF s.strstart > Len(data)
    THEN IF s.match_available THEN Append(s.out, Literal(data[Len(data)])) ELSE s.out
    ELSE DeflateSlow(data, DeflateStep(data, s))

\* The length and distance code tables of DEFLATE (RFC 1951, 3.2.5).
LengthBase ==
    <<3, 4, 5, 6, 7, 8, 9, 10, 11, 13, 15, 17, 19, 23, 27, 31, 35, 43, 51, 59,
      67, 83, 99, 115, 131, 163, 195, 227, 258>>

LengthExtra ==
    <<0, 0, 0, 0, 0, 0, 0, 0, 1, 1, 1, 1, 2, 2, 2, 2, 3, 3, 3, 3,
      4, 4, 4, 4, 5, 5, 5, 5, 0>>

DistBase ==
    <<1, 2, 3, 4, 5, 7, 9, 13, 17, 25, 33, 49, 65, 97, 129, 193, 257, 385,
      513, 769, 1025, 1537, 2049, 3073, 4097, 6145, 8193, 12289, 16385, 24577>>

DistExtra ==
    <<0, 0, 0, 0, 1, 1, 2, 2, 3, 3, 4, 4, 5, 5, 6, 6, 7, 7, 8, 8,
      9, 9, 10, 10, 11, 11, 12, 12, 13, 13>>

\* The bits of v in a field of n bits, most (MsbBits) or least (LsbBits)
\* significant first.  Huffman codes go out most significant bit first,
\* every other field least significant bit first.
MsbBits(v, n) == [k \in 1..n |-> (v \div (2 ^ (n - k))) % 2]

LsbBits(v, n) == [k \in 1..n |-> (v \div (2 ^ (k - 1))) % 2]

\* The fixed Huffman code of a literal/length symbol 0..287.
FixedCode(sym) ==
    IF sym < 144 THEN MsbBits(48 + sym, 8)
    ELSE IF sym < 256 THEN MsbBits(400 + (sym - 144), 9)
    ELSE IF sym < 280 THEN MsbBits(sym - 256, 7)
    ELSE MsbBits(192 + (sym - 280), 8)

LengthCode(l) == Max({c \in 1..29 : LengthBase[c] <= l})

DistCode(d) == Max({c \in 1..30 : DistBase[c] <= d})

TokenBits(t) ==
    IF t.len = 0 THEN FixedCode(t.lit)
    ELSE LET lc == LengthCode(t.len)
             dc == DistCode(t.dist)
         IN  FixedCode(256 + lc)
             \o LsbBits(t.len - LengthBase[lc], LengthExtra[lc])
             \o MsbBits(dc - 1, 5)
             \o LsbBits(t.dist - DistBase[dc], DistExtra[dc])

RECURSIVE TokensBits(_, _)
TokensBits(toks, s) ==
    IF s.pos > Len(toks) THEN s.bits
    ELSE TokensBits(toks, [pos |-> s.pos + 1, bits |-> s.bits \o TokenBits(toks[s.pos])])

\* Bits to bytes, the first bit the least significant of the first byte,
\* the last byte filled with zero bits.
PackBits(bits) ==
    LET bit(k) == IF k <= Len(bits) THEN bits[k] ELSE 0
    IN  [j \in 1..((Len(bits) + 7) \div 8) |->
            bit(8 * j - 7) + 2 * bit(8 * j - 6) + 4 * bit(8 * j - 5)
            + 8 * bit(8 * j - 4) + 16 * bit(8 * j - 3) + 32 * bit(8 * j - 2)
            + 64 * bit(8 * j - 1) + 128 * bit(8 * j)]

\* One final block (BFINAL = 1) of type 01, the tokens, the end-of-block symbol.
Deflate(data) ==
    PackBits(TokensBits(DeflateSlow(data, DeflateStart), [pos |-> 1, bits |-> <<1, 1, 0>>])
             \o FixedCode(256))

ZlibHeader == <<120, 218>>

compress(data) == ZlibHeader \o Deflate(data) \o adler32(data)

(***************************************************************************)
(* What a call returns: the bytes, or the exception it raises (and then no *)
(* bytes).  struct.error is raised by struct.pack for a field outside its  *)
(* range; ValueError by a tuple assignment of the wrong arity ("unpack")   *)
(* and by bytes() of a list holding a value outside 0..255 ("bytes").      *)
(***************************************************************************)
Return(data) == [ok |-> TRUE, error |-> "none", bytes |-> data]

Raise(e) == [ok |-> FALSE, error |-> e, bytes |-> <<>>]

\* struct.pack('>I', v): accepts 0 <= v < 2^32.  The model's integers end
\* below 2^31, so only the lower limit can be crossed here.
PackableU32(v) == v >= 0

PackU32(v) ==
    <<(v \div 16777216) % 256, (v \div 65536) % 256, (v \div 256) % 256, v % 256>>

IsByte(v) == v \in 0..255

\* list * n: the list repeated n times, empty for n <= 0.
Repeat(list, n) ==
    [k \in 1..(Len(list) * (IF n > 0 THEN n ELSE 0)) |-> list[((k - 1) % Len(list)) + 1]]

PngSignature == <<137, 80, 78, 71, 13, 10, 26, 10>>

TypeIHDR == <<73, 72, 68, 82>>

TypeIDAT == <<73, 68, 65, 84>>

TypeIEND == <<73, 69, 78, 68>>

ColorTypeRGB == 2

ColorTypeRGBA == 6

BitDepth == 8

\* create_chunk with the checksum taken over the data alone, the type left out.
create_chunk_crc_of_data(chunk_type, data) ==
    LET length == PackU32(Len(data))
        crc == crc32(data)
    IN  length \o chunk_type \o data \o crc

create_chunk(chunk_type, data) ==
    LET length == PackU32(Len(data))
        crc == crc32(chunk_type \o data)
    IN  length \o chunk_type \o data \o crc

\* struct.pack('>IIBBBBB', width, height, 8, color_type, 0, 0, 0)
\* IhdrData with the two dimensions packed in the other order.
IhdrDataHeightFirst(width, height, color_type) ==
    PackU32(height) \o PackU32(width) \o <<BitDepth, color_type, 0, 0, 0>>

IhdrData(width, height, color_type) ==
    PackU32(width) \o PackU32(height) \o <<BitDepth, color_type, 0, 0, 0>>

\* The for loop of create_png: row s.y is next, s.raw_data is built so far.
RECURSIVE PngRows(_, _, _, _)
PngRows(width, height, rgb, s) ==
    IF s.error # "none" \/ s.y >= height THEN s
    ELSE LET line == Repeat(rgb, width)
         IN  IF \E k \in 1..Len(line) : ~IsByte(line[k])
             THEN [s EXCEPT !.error = "ValueError:bytes"]
             ELSE PngRows(width, height, rgb,
                          [y |-> s.y + 1, error |-> "none",
                           raw_data |-> s.raw_data \o <<0>> \o line])

\* A call's outcome: what it returns or raises, and the arguments with
\* which it called zlib.compress on the way (none, or the one raw_data).
Outcome(res, calls) == [result |-> res, compress_calls |-> calls]

PngOutcome(width, height, color_rgb) ==
    IF ~(PackableU32(width) /\ PackableU32(height))
    THEN Outcome(Raise("struct.error"), <<>>)
    ELSE IF Len(color_rgb) # 3 THEN Outcome(Raise("ValueError:unpack"), <<>>)
    ELSE LET ihdr_chunk == create_chunk(TypeIHDR, IhdrData(width, height, ColorTypeRGB))
             rows == PngRows(width, height, color_rgb,
                             [y |-> 0, error |-> "none", raw_data |-> <<>>])
         IN  IF rows.error # "none" THEN Outcome(Raise(rows.error), <<>>)
             ELSE LET compressed_data == compress(rows.raw_data)
                      idat_chunk == create_chunk(TypeIDAT, compressed_data)
                      iend_chunk == create_chunk(TypeIEND, <<>>)
                  IN  Outcome(Return(PngSignature \o ihdr_chunk \o idat_chunk \o iend_chunk),
                              <<rows.raw_data>>)

create_png(width, height, color_rgb) == PngOutcome(width, height, color_rgb).result

\* PixelLoop writing the channels as blue, green, red, alpha.
RECURSIVE PixelLoopBgra(_, _)
PixelLoopBgra(row, s) ==
    IF s.error # "none" \/ s.x > Len(row) THEN s
    ELSE LET pixel == row[s.x]
         IN  IF Len(pixel) # 4 THEN [s EXCEPT !.error = "ValueError:unpack"]
             ELSE IF \E k \in 1..4 : ~IsByte(pixel[k])
             THEN [s EXCEPT !.error = "ValueError:bytes"]
             ELSE PixelLoopBgra(row, [x |-> s.x + 1, error |-> "none",
                                      raw_data |-> s.raw_data \o
                                          <<pixel[3], pixel[2], pixel[1], pixel[4]>>])

\* PixelLoop without the unpacking of line 59: bytes(pixel), whatever its arity.
RECURSIVE PixelLoopAnyArity(_, _)
PixelLoopAnyArity(row, s) ==
    IF s.error # "none" \/ s.x > Len(row) THEN s
    ELSE LET pixel == row[s.x]
         IN  IF \E k \in 1..Len(pixel) : ~IsByte(pixel[k])
             THEN [s EXCEPT !.error = "ValueError:bytes"]
             ELSE PixelLoopAnyArity(row, [x |-> s.x + 1, error |-> "none",
                                          raw_data |-> s.raw_data \o pixel])

\* The inner for loop of create_image_from_pixels: pixel s.x of the row is next.
RECURSIVE PixelLoop(_, _)
PixelLoop(row, s) ==
    IF s.error # "none" \/ s.x > Len(row) THEN s
    ELSE LET pixel == row[s.x]
         IN  IF Len(pixel) # 4 THEN [s EXCEPT !.error = "ValueError:unpack"]
             ELSE IF \E k \in 1..4 : ~IsByte(pixel[k])
             THEN [s EXCEPT !.error = "ValueError:bytes"]
             ELSE PixelLoop(row, [x |-> s.x + 1, error |-> "none",
                                  raw_data |-> s.raw_data \o pixel])

\* RowLoop without line 57: no filter byte in front of a row.
RECURSIVE RowLoopNoFilter(_, _)
RowLoopNoFilter(pixels, s) ==
    IF s.error # "none" \/ s.y > Len(pixels) THEN s
    ELSE LET r == PixelLoop(pixels[s.y],
                            [x |-> 1, error |-> "none", raw_data |-> s.raw_data])
         IN  RowLoopNoFilter(pixels, [y |-> s.y + 1, error |-> r.error,
                                      raw_data |-> r.raw_data])

\* The outer for loop of create_image_from_pixels: row s.y of pixels is next.
RECURSIVE RowLoop(_, _)
RowLoop(pixels, s) ==
    IF s.error # "none" \/ s.y > Len(pixels) THEN s
    ELSE LET r == PixelLoop(pixels[s.y],
                            [x |-> 1, error |-> "none", raw_data |-> s.raw_data \o <<0>>])
         IN  RowLoop(pixels, [y |-> s.y + 1, error |-> r.error, raw_data |-> r.raw_data])

\* raw_data as create_image_from_pixels builds it, or the exception of the loop.
PixelScanlines(pixels) == RowLoop(pixels, [y |-> 1, error |-> "none", raw_data |-> <<>>])

\* Lines 55 to 63 of create_image_from_pixels: the loop, zlib.compress and
\* the IDAT chunk (in bytes), or the exception of the loop.
PixelIdat(pixels) ==
    LET rows == PixelScanlines(pixels)
    IN  IF rows.error # "none" THEN Outcome(Raise(rows.error), <<>>)
        ELSE Outcome(Return(create_chunk(TypeIDAT, compress(rows.raw_data))),
                     <<rows.raw_data>>)

\* ImageAround returning without the IEND chunk.
ImageAroundNoIend(width, height, idat) ==
    IF ~(PackableU32(width) /\ PackableU32(height))
    THEN Outcome(Raise("struct.error"), <<>>)
    ELSE IF ~idat.result.ok THEN idat
    ELSE LET ihdr_chunk == create_chunk(TypeIHDR, IhdrData(width, height, ColorTypeRGBA))
         IN  Outcome(Return(PngSignature \o ihdr_chunk \o idat.result.bytes),
                     idat.compress_calls)

\* create_image_from_pixels around those lines.  struct.pack runs before the
\* loop, so its exception is the one raised when both would fail.
ImageAround(width, height, idat) ==
    IF ~(PackableU32(width) /\ PackableU32(height))
    THEN Outcome(Raise("struct.error"), <<>>)
    ELSE IF ~idat.result.ok THEN idat
    ELSE LET ihdr_chunk == create_chunk(TypeIHDR, IhdrData(width, height, ColorTypeRGBA))
             iend_chunk == create_chunk(TypeIEND, <<>>)
         IN  Outcome(Return(PngSignature \o ihdr_chunk \o idat.result.bytes \o iend_chunk),
                     idat.compress_calls)

create_image_from_pixels(width, height, pixels) ==
    ImageAround(width, height, PixelIdat(pixels)).result

(***************************************************************************)
(* The inputs explored.  Pixels and colours are taken from the sprite      *)
(* colour tables; a bad buffer is a good one with one pixel replaced by a  *)
(* tuple of the wrong arity or with a channel above 255.  Widths and       *)
(* heights are drawn independently of the buffer's shape.                  *)
(***************************************************************************)
Dims == (-1)..MaxDim

Palette == {<<0, 0, 0, 0>>, <<139, 90, 43, 255>>}

BadPixels == {<<139, 90, 43>>, <<0, 0, 0, 256>>}

Colors == {<<255, 0, 0>>, <<139, 90, 43>>}

BadColors == {<<139, 90, 43, 255>>, <<255, 0>>, <<256, 0, 0>>, <<0, 0, -1>>}

PixelRows == UNION {[1..n -> Palette] : n \in 0..MaxPixels}

RECURSIVE PixelCount(_)
PixelCount(b) == IF b = <<>> THEN 0 ELSE Len(Head(b)) + PixelCount(Tail(b))

\* Every buffer of at most MaxRows rows and MaxPixels pixels, ragged or not.
GoodBuffers ==
    {b \in UNION {[1..m -> PixelRows] : m \in 0..MaxRows} : PixelCount(b) <= MaxPixels}

BadBuffers ==
    UNION {UNION {{[b EXCEPT ![y][x] = p] : x \in 1..Len(b[y]), p \in BadPixels}
                  : y \in 1..Len(b)}
           : b \in GoodBuffers}

Buffers == GoodBuffers \cup BadBuffers

ChunkTypes == {TypeIHDR, TypeIDAT, TypeIEND, <<116, 69, 88, 116>>}

PayloadBytes == {0, 128, 255}

Payloads == UNION {[1..n -> PayloadBytes] : n \in 0..MaxPayload}

(***************************************************************************)
(* The state: the last call made (which function, with which arguments),   *)
(* what it returned or raised, and what it handed to zlib.compress.        *)
(***************************************************************************)
VARIABLES call, result, compress_calls

\* The call of draw_sprite or create_spritesheet in progress, the list
\* objects that exist (the caller's frames and their rows, the rows of the
\* sheet), and the pixels draw_sprite returned.
VARIABLES sheet_call, heap, drawn

sheet_vars == <<sheet_call, heap, drawn>>

\* One run of the script: where it is (pc), the six files under
\* assets/sprites as the run finds them (before) and as they are now (files),
\* the file objects that are open (handles), the lines printed (stdout), the
\* calls made on files in order (io), and the module-level names cow_png,
\* sheep_png, ... that are bound to the PNG built for each sprite (pngs).
VARIABLES pc, files, before, handles, stdout, io, pngs

run_vars == <<pc, files, before, handles, stdout, io, pngs>>

vars == <<call, result, compress_calls, sheet_vars, run_vars>>

NoCall ==
    [op |-> "none", width |-> 0, height |-> 0, color_rgb |-> <<>>, pixels |-> <<>>,
     chunk_type |-> <<>>, data |-> <<>>]

PngCall(w, h, c) ==
    [NoCall EXCEPT !.op = "create_png", !.width = w, !.height = h, !.color_rgb = c]

PixelsCall(w, h, p) ==
    [NoCall EXCEPT !.op = "create_image_from_pixels", !.width = w, !.height = h,
                   !.pixels = p]

ChunkCall(t, d) ==
    [NoCall EXCEPT !.op = "create_chunk", !.chunk_type = t, !.data = d]

(***************************************************************************)
(* draw_sprite and create_spritesheet.  Python lists are objects: a list   *)
(* of frames may hold the same frame object several times, and an          *)
(* assignment to sheet_pixels[..][..] changes one row object.  The heap    *)
(* maps the identity of each list object to its items.                     *)
(***************************************************************************)
Transparent == <<0, 0, 0, 0>>

Cols == 6

\* colors[char] if char is a key of colors, else the transparent pixel.
DrawChar(char, colors) == IF char \in DOMAIN colors THEN colors[char] ELSE Transparent

draw_sprite(pattern, colors) ==
    [l \in 1..Len(pattern) |->
        [c \in 1..Len(pattern[l]) |-> DrawChar(pattern[l][c], colors)]]

\* rows = (len(frames) + cols - 1) // cols
SheetRows(n) == (n + Cols - 1) \div Cols

SheetWidth(frame_width) == Cols * frame_width

SheetHeight(n, frame_height) == SheetRows(n) * frame_height

\* The identity of the y-th row object that create_spritesheet allocates.
SheetRowId(y) == <<"sheet", y, 0>>

\* EmptySheet with one row object for every row: [row] * sheet_height.
EmptySheetSharedRow(sheet_width, sheet_height, h) ==
    LET ids == {SheetRowId(1)}
    IN  [sheet_pixels |-> [y \in 1..sheet_height |-> SheetRowId(1)],
         heap |-> [id \in DOMAIN h \cup ids |->
                     IF id \in ids THEN Repeat(<<Transparent>>, sheet_width) ELSE h[id]]]

\* Lines 98 to 101: sheet_height fresh rows of sheet_width transparent pixels.
EmptySheet(sheet_width, sheet_height, h) ==
    LET ids == {SheetRowId(y) : y \in 1..sheet_height}
    IN  [sheet_pixels |-> [y \in 1..sheet_height |-> SheetRowId(y)],
         heap |-> [id \in DOMAIN h \cup ids |->
                     IF id \in ids THEN Repeat(<<Transparent>>, sheet_width) ELSE h[id]]]

\* min without the comparison: the first argument, whatever the second.
min_is_first(a, b) == a

\* The smaller of two integers.
min(a, b) == IF a <= b THEN a ELSE b

\* col = i % cols with the division of row in its place.
CellColByDivision(i) == i \div Cols

\* col = i % cols
CellCol(i) == i % Cols

\* row = i // cols with the remainder of col in its place.
CellRowByRemainder(i) == i % Cols

\* row = i // cols
CellRow(i) == i \div Cols

\* list[k] of Python for a list of n items: the position from 1 that index
\* k names, counting from the end when k is negative; 0 for an IndexError.
PyIndex(n, k) ==
    IF k >= 0 /\ k < n THEN k + 1 ELSE IF k < 0 /\ k >= -n THEN n + k + 1 ELSE 0

\* Lines 104 to 112: s.i, s.y and s.x are the loop variables i, y and x of
\* the assignment that is next.
RECURSIVE PlaceLoop(_, _, _, _, _)
PlaceLoop(frames, frame_width, frame_height, sheet_pixels, s) ==
    IF s.error # "none" \/ s.i >= Len(frames) THEN s
    ELSE LET frame == s.heap[frames[s.i + 1]]
             start_x == CellCol(s.i) * frame_width
             start_y == CellRow(s.i) * frame_height
         IN  IF s.y >= min(Len(frame), frame_height)
             THEN PlaceLoop(frames, frame_width, frame_height, sheet_pixels,
                            [i |-> s.i + 1, y |-> 0, x |-> 0, heap |-> s.heap,
                             error |-> "none"])
             ELSE IF s.x >= min(Len(s.heap[frame[s.y + 1]]), frame_width)
             THEN PlaceLoop(frames, frame_width, frame_height, sheet_pixels,
                            [i |-> s.i, y |-> s.y + 1, x |-> 0, heap |-> s.heap,
                             error |-> "none"])
             ELSE LET at_y == PyIndex(Len(sheet_pixels), start_y + s.y)
                      row == IF at_y = 0 THEN <<>> ELSE sheet_pixels[at_y]
                      at_x == IF at_y = 0 THEN 0
                              ELSE PyIndex(Len(s.heap[row]), start_x + s.x)
                  IN  IF at_y = 0 \/ at_x = 0 THEN [s EXCEPT !.error = "IndexError"]
                      ELSE PlaceLoop(frames, frame_width, frame_height, sheet_pixels,
                               [i |-> s.i, y |-> s.y, x |-> s.x + 1, error |-> "none",
                                heap |-> [s.heap EXCEPT ![row][at_x] =
                                             s.heap[frame[s.y + 1]][s.x + 1]]])

\* create_spritesheet: what it returns or raises, its call of
\* create_image_from_pixels, that call's zlib.compress, and the heap after.
SheetOutcome(frames, frame_width, frame_height, h) ==
    LET sheet_width == SheetWidth(frame_width)
        sheet_height == SheetHeight(Len(frames), frame_height)
        empty == EmptySheet(sheet_width, sheet_height, h)
        placed == PlaceLoop(frames, frame_width, frame_height, empty.sheet_pixels,
                            [i |-> 0, y |-> 0, x |-> 0, heap |-> empty.heap,
                             error |-> "none"])
    IN  IF placed.error # "none"
        THEN [result |-> Raise(placed.error), compress_calls |-> <<>>,
              call |-> NoCall, heap |-> placed.heap]
        ELSE LET sheet_pixels == [y \in 1..Len(empty.sheet_pixels) |->
                                    placed.heap[empty.sheet_pixels[y]]]
                 out == ImageAround(sheet_width, sheet_height, PixelIdat(sheet_pixels))
             IN  [result |-> out.result, compress_calls |-> out.compress_calls,
                  call |-> PixelsCall(sheet_width, sheet_height, sheet_pixels),
                  heap |-> placed.heap]

\* The frames a caller holds: a frame object is a list of row objects, a row
\* object a list of pixels.
White == <<255, 255, 255, 255>>

Brown == <<139, 90, 43, 255>>

Dark == <<100, 65, 30, 255>>

Pink == <<255, 192, 203, 255>>

Solid(p) == <<<<p, p>>, <<p, p>>>>

\* One pixel; more rows than a cell and rows of three lengths; no row at
\* all; four cells of one colour each.
Shapes ==
    << <<<<Brown>>>>,
       <<<<White, Brown, Dark>>, <<Pink>>, <<Dark, Transparent>>>>,
       <<>>,
       Solid(Brown), Solid(White), Solid(Dark), Solid(Pink) >>

FrameId(j) == <<"frame", j, 0>>

FrameRowId(j, y) == <<"row", j, y>>

FrameHeap ==
    [id \in {FrameId(j) : j \in 1..Len(Shapes)}
            \cup UNION {{FrameRowId(j, y) : y \in 1..Len(Shapes[j])} : j \in 1..Len(Shapes)}
        |-> IF id[1] = "frame" THEN [y \in 1..Len(Shapes[id[2]]) |-> FrameRowId(id[2], y)]
            ELSE Shapes[id[2]][id[3]]]

\* Lists of 0 to MaxFrames frames that run through the first three shapes,
\* and the list of the four solid cells.
FrameLists ==
    {[i \in 1..n |-> FrameId(((i + k) % 3) + 1)] : n \in 0..MaxFrames, k \in 0..2}
        \cup {<<FrameId(4), FrameId(5), FrameId(6), FrameId(7)>>}

CellDims == (-1)..MaxCell

\* The lines draw_sprite is given: characters of the colour table and one
\* that is not in it.
Chars == {" ", "B", "?"}

Lines == UNION {[1..n -> Chars] : n \in 0..MaxLine}

Patterns == UNION {[1..n -> Lines] : n \in 0..MaxLines}

ColorTables == {[c \in {" ", "B"} |-> IF c = "B" THEN Brown ELSE Transparent],
                [c \in {"W"} |-> White]}

NoSheetCall ==
    [op |-> "none", frames |-> <<>>, frame_width |-> 0, frame_height |-> 0,
     pattern |-> <<>>, colors |-> <<>>]

(***************************************************************************)
(* The script at the bottom of the module, lines 391-561: for each of six  *)
(* sprites it prints "Generating", builds the PNG, opens the file for      *)
(* writing inside a with statement, writes, leaves the with statement and  *)
(* prints "Created"; after the sixth it prints the summary.                *)
(***************************************************************************)
Sprites == 1 .. 6

FileNames == <<"cow", "sheep", "goat", "alpaca", "player", "projectiles">>

\* The number of frames each sprite's list holds, and the cell size passed
\* to create_spritesheet with it.
FrameCounts == <<10, 10, 10, 10, 6, 4>>

CellSizes == <<96, 96, 96, 96, 48, 16>>

\* The sheet size each "Created" line states.
Announced == <<<<576, 192>>, <<576, 192>>, <<576, 192>>, <<576, 192>>,
               <<288, 96>>, <<96, 16>>>>

\* A PNG as the sequence of its parts.  The sheets of the run are too large
\* to encode here, so a part stands for its bytes: the IHDR by the width and
\* height it carries, the IDAT by the sprite whose frames it holds.
Part(name, k, w, h) == [chunk |-> name, sprite |-> k, width |-> w, height |-> h]

\* create_spritesheet(frames, size, size) for sprite k: the sheet that
\* create_image_from_pixels encodes is SheetWidth by SheetHeight.
SpritePng(k) ==
    LET w == SheetWidth(CellSizes[k])
        h == SheetHeight(FrameCounts[k], CellSizes[k])
    IN  <<Part("signature", 0, 0, 0), Part("IHDR", 0, w, h),
          Part("IDAT", k, w, h), Part("IEND", 0, 0, 0)>>

Prefixes(data) == {SubSeq(data, 1, n) : n \in 0 .. Len(data)}

ProperPrefixes(data) == {SubSeq(data, 1, n) : n \in 0 .. (Len(data) - 1)}

Absent == [exists |-> FALSE, data |-> <<>>]

OldFile == [exists |-> TRUE, data |-> <<Part("old", 0, 0, 0)>>]

Stored(data) == [exists |-> TRUE, data |-> data]

Line(text, k, size) ==
    [text |-> text, sprite |-> k, width |-> size[1], height |-> size[2]]

IoCall(op, k) == [op |-> op, sprite |-> k]

At(k, step) == [sprite |-> k, step |-> step, failed |-> FALSE]

\* The statement that follows each statement of one sprite's block.
StepAfterOpensFirst(step) ==
    CASE step = "print_generating" -> "open"
      [] step = "open" -> "build"
      [] step = "build" -> "write"
      [] step = "write" -> "close"
      [] step = "close" -> "print_created"

StepAfter(step) ==
    CASE step = "print_generating" -> "build"
      [] step = "build" -> "open"
      [] step = "open" -> "write"
      [] step = "write" -> "close"
      [] step = "close" -> "print_created"

Unbound == [k \in Sprites |-> <<>>]

InitRun(found) ==
    /\ pc = At(1, "print_generating")
    /\ files = found
    /\ before = found
    /\ handles = {}
    /\ stdout = <<>>
    /\ io = <<>>
    /\ pngs = Unbound

Init ==
    /\ call = NoCall
    /\ result = Return(<<>>)
    /\ compress_calls = <<>>
    /\ sheet_call = NoSheetCall
    /\ heap = FrameHeap
    /\ drawn = <<>>
    /\ InitRun([k \in Sprites |-> Absent])

CreatePng ==
    /\ call = NoCall
    /\ \E w \in Dims, h \in Dims, c \in Colors \cup BadColors :
        LET out == PngOutcome(w, h, c)
        IN  /\ call' = PngCall(w, h, c)
            /\ result' = out.result
            /\ compress_calls' = out.compress_calls
            /\ UNCHANGED <<sheet_vars, run_vars>>

CreateImageFromPixels ==
    /\ call = NoCall
    /\ \E p \in Buffers :
        LET idat == PixelIdat(p)
        IN  \E w \in Dims, h \in Dims :
                LET out == ImageAround(w, h, idat)
                IN  /\ call' = PixelsCall(w, h, p)
                    /\ result' = out.result
                    /\ compress_calls' = out.compress_calls
                    /\ UNCHANGED <<sheet_vars, run_vars>>

CreateChunk ==
    /\ call = NoCall
    /\ \E t \in ChunkTypes, d \in Payloads :
        /\ call' = ChunkCall(t, d)
        /\ result' = Return(create_chunk(t, d))
        /\ compress_calls' = <<>>
        /\ UNCHANGED <<sheet_vars, run_vars>>

\* The caller is done with the returned value and is ready for its next call.
Discard ==
    /\ call # NoCall \/ sheet_call # NoSheetCall
    /\ call' = NoCall
    /\ result' = Return(<<>>)
    /\ compress_calls' = <<>>
    /\ sheet_call' = NoSheetCall
    /\ heap' = FrameHeap
    /\ drawn' = <<>>
    /\ UNCHANGED run_vars

Next ==
    \/ CreatePng
    \/ CreateImageFromPixels
    \/ CreateChunk
    \/ Discard

Spec == Init /\ [][Next]_vars

\* draw_sprite(pattern, colors).
DrawSprite ==
    /\ call = NoCall /\ sheet_call = NoSheetCall
    /\ \E pattern \in Patterns, colors \in ColorTables :
        /\ sheet_call' = [NoSheetCall EXCEPT !.op = "draw_sprite", !.pattern = pattern,
                                             !.colors = colors]
        /\ drawn' = draw_sprite(pattern, colors)
        /\ UNCHANGED <<call, result, compress_calls, heap, run_vars>>

\* create_spritesheet(frames, frame_width, frame_height), through its call
\* of create_image_from_pixels.
CreateSpritesheet ==
    /\ call = NoCall /\ sheet_call = NoSheetCall
    /\ \E frames \in FrameLists, frame_width \in CellDims, frame_height \in CellDims :
        /\ SheetWidth(frame_width) * SheetHeight(Len(frames), frame_height)
                <= MaxSheetPixels
        /\ LET out == SheetOutcome(frames, frame_width, frame_height, heap)
           IN  /\ sheet_call' = [NoSheetCall EXCEPT !.op = "create_spritesheet",
                                     !.frames = frames, !.frame_width = frame_width,
                                     !.frame_height = frame_height]
               /\ call' = out.call
               /\ result' = out.result
               /\ compress_calls' = out.compress_calls
               /\ heap' = out.heap
               /\ drawn' = <<>>
               /\ UNCHANGED run_vars

SheetNext ==
    \/ DrawSprite
    \/ CreateSpritesheet
    \/ Discard

SheetSpec == Init /\ [][SheetNext]_vars

(***************************************************************************)
(* The steps of the run.                                                   *)
(***************************************************************************)
call_vars == <<call, result, compress_calls, sheet_vars>>

Running(step) == ~pc.failed /\ pc.step = step

Advance == pc' = [pc EXCEPT !.step = StepAfter(pc.step)]

Halt == pc' = [pc EXCEPT !.failed = TRUE]

\* The block of the next sprite, or the summary after the last one.
AfterBlock(k) ==
    IF k < Len(FileNames) THEN At(k + 1, "print_generating")
                          ELSE At(k, "print_summary")

\* print("Generating <name>.png...")
PrintGenerating ==
    /\ Running("print_generating")
    /\ stdout' = Append(stdout, Line("Generating", pc.sprite, <<0, 0>>))
    /\ Advance
    /\ UNCHANGED <<files, before, handles, io, pngs, call_vars>>

\* <name>_png = create_<name>_sprites(), or the frames and the call of
\* create_spritesheet for the player and the projectiles.
Build ==
    /\ Running("build")
    /\ pngs' = [pngs EXCEPT ![pc.sprite] = SpritePng(pc.sprite)]
    /\ Advance
    /\ UNCHANGED <<files, before, handles, stdout, io, call_vars>>

\* The same statements raise (MemoryError).  No with statement is entered in
\* them; a file object that were open would be closed by its with statement.
BuildFails ==
    /\ Running("build")
    /\ handles' = handles \ {pc.sprite}
    /\ Halt
    /\ UNCHANGED <<files, before, stdout, io, pngs, call_vars>>

\* open('assets/sprites/<name>.png', 'wb') creates or truncates the file.
Open ==
    /\ Running("open")
    /\ files' = [files EXCEPT ![pc.sprite] = Stored(<<>>)]
    /\ handles' = handles \cup {pc.sprite}
    /\ io' = Append(io, IoCall("open", pc.sprite))
    /\ Advance
    /\ UNCHANGED <<before, stdout, pngs, call_vars>>

\* An open that raised is caught and the run goes on with the next sprite.
OpenFailsAndContinues ==
    /\ Running("open")
    /\ io' = Append(io, IoCall("open_failed", pc.sprite))
    /\ pc' = AfterBlock(pc.sprite)
    /\ UNCHANGED <<files, before, handles, stdout, pngs, call_vars>>

\* open raises OSError: the file is as it was and the exception ends the run.
OpenFails ==
    /\ Running("open")
    /\ io' = Append(io, IoCall("open_failed", pc.sprite))
    /\ Halt
    /\ UNCHANGED <<files, before, handles, stdout, pngs, call_vars>>

\* f.write(<name>_png): the file object is buffered, so any prefix of the
\* bytes may have reached the file when write returns.
Write ==
    /\ Running("write")
    /\ \E data \in Prefixes(pngs[pc.sprite]) :
        files' = [files EXCEPT ![pc.sprite] = Stored(data)]
    /\ io' = Append(io, IoCall("write", pc.sprite))
    /\ Advance
    /\ UNCHANGED <<before, handles, stdout, pngs, call_vars>>

\* Without the with statement nothing closes the file when write raises.
WriteFailsLeavesOpen ==
    /\ Running("write")
    /\ \E data \in ProperPrefixes(pngs[pc.sprite]) :
        files' = [files EXCEPT ![pc.sprite] = Stored(data)]
    /\ io' = Append(io, IoCall("write_failed", pc.sprite))
    /\ Halt
    /\ UNCHANGED <<before, handles, stdout, pngs, call_vars>>

\* write raises OSError: part of the bytes is in the file, the with
\* statement closes the file object and the exception ends the run.
WriteFails ==
    /\ Running("write")
    /\ \E data \in ProperPrefixes(pngs[pc.sprite]) :
        files' = [files EXCEPT ![pc.sprite] = Stored(data)]
    /\ handles' = handles \ {pc.sprite}
    /\ io' = Append(io, IoCall("write_failed", pc.sprite))
    /\ Halt
    /\ UNCHANGED <<before, stdout, pngs, call_vars>>

\* Leaving the with statement closes the file object, which flushes the rest
\* of the bytes.
Close ==
    /\ Running("close")
    /\ files' = [files EXCEPT ![pc.sprite] = Stored(pngs[pc.sprite])]
    /\ handles' = handles \ {pc.sprite}
    /\ io' = Append(io, IoCall("close", pc.sprite))
    /\ Advance
    /\ UNCHANGED <<before, stdout, pngs, call_vars>>

\* The flush in close raises OSError: the file keeps what had reached it, the
\* file object is closed all the same and the exception ends the run.
CloseFails ==
    /\ Running("close")
    /\ handles' = handles \ {pc.sprite}
    /\ io' = Append(io, IoCall("close_failed", pc.sprite))
    /\ Halt
    /\ UNCHANGED <<files, before, stdout, pngs, call_vars>>

\* print("Created assets/sprites/<name>.png (WxH, ...)"), then the next
\* sprite's block or the summary.
PrintCreated ==
    /\ Running("print_created")
    /\ stdout' = Append(stdout, Line("Created", pc.sprite, Announced[pc.sprite]))
    /\ pc' = AfterBlock(pc.sprite)
    /\ UNCHANGED <<files, before, handles, io, pngs, call_vars>>

\* print("All sprite sheets generated successfully!") and the list of files.
PrintSummary ==
    /\ Running("print_summary")
    /\ stdout' = Append(stdout, Line("All sprite sheets generated successfully!",
                                     0, <<0, 0>>))
    /\ pc' = At(pc.sprite, "done")
    /\ UNCHANGED <<files, before, handles, io, pngs, call_vars>>

RunInit ==
    /\ call = NoCall
    /\ result = Return(<<>>)
    /\ compress_calls = <<>>
    /\ sheet_call = NoSheetCall
    /\ heap = FrameHeap
    /\ drawn = <<>>
    /\ \E found \in [Sprites -> {Absent, OldFile}] : InitRun(found)

RunNext ==
    \/ PrintGenerating
    \/ Build
    \/ BuildFails
    \/ Open
    \/ OpenFails
    \/ Write
    \/ WriteFails
    \/ Close
    \/ CloseFails
    \/ PrintCreated
    \/ PrintSummary

RunSpec == RunInit /\ [][RunNext]_vars

(***************************************************************************)
(* A PNG reader, written from the format (PNG, RFC 1950, RFC 1951) and not *)
(* from the encoder: the claims are stated on what it reads back.          *)
(***************************************************************************)
Slice(b, i, n) == SubSeq(b, i, i + n - 1)

\* The unsigned big-endian integer in the four bytes of b from index i;
\* PNG keeps lengths and dimensions below 2^31.
ReadU32(b, i) == b[i] * 16777216 + b[i + 1] * 65536 + b[i + 2] * 256 + b[i + 3]

\* The chunks of a byte sequence from index s.pos on: length, type, data, crc.
RECURSIVE ReadChunks(_, _)
ReadChunks(png, s) ==
    IF ~s.ok \/ s.pos > Len(png) THEN s
    ELSE IF s.pos + 11 > Len(png) \/ png[s.pos] > 127 THEN [s EXCEPT !.ok = FALSE]
    ELSE LET n == ReadU32(png, s.pos)
         IN  IF s.pos + 11 + n > Len(png) THEN [s EXCEPT !.ok = FALSE]
             ELSE ReadChunks(png,
                     [ok |-> TRUE, pos |-> s.pos + 12 + n,
                      chunks |-> Append(s.chunks,
                                    [length |-> n,
                                     type |-> Slice(png, s.pos + 4, 4),
                                     data |-> Slice(png, s.pos + 8, n),
                                     crc |-> Slice(png, s.pos + 8 + n, 4)])])

\* The signature 89 50 4E 47 0D 0A 1A 0A, then chunks to the last byte.
ReadPng(png) ==
    IF Len(png) < 8 \/ Slice(png, 1, 8) # <<137, 80, 78, 71, 13, 10, 26, 10>>
    THEN [ok |-> FALSE, pos |-> 1, chunks |-> <<>>]
    ELSE ReadChunks(png, [ok |-> TRUE, pos |-> 9, chunks |-> <<>>])

\* CRC-32 bit by bit: the register starts as all ones, takes each byte into
\* its low end, is shifted right eight times, the polynomial EDB88320 added
\* whenever a one falls out, and is complemented at the end.
RefCrcBit(c) ==
    IF c[4] % 2 = 1 THEN XorW(<<237, 184, 131, 32>>, Shr1(c)) ELSE Shr1(c)

RefCrcByte(c, byte) ==
    LET c0 == <<c[1], c[2], c[3], XorB(c[4], byte)>>
    IN  RefCrcBit(RefCrcBit(RefCrcBit(RefCrcBit(
        RefCrcBit(RefCrcBit(RefCrcBit(RefCrcBit(c0))))))))

RECURSIVE RefCrcRun(_, _)
RefCrcRun(data, s) ==
    IF s.pos > Len(data) THEN s.reg
    ELSE RefCrcRun(data, [pos |-> s.pos + 1, reg |-> RefCrcByte(s.reg, data[s.pos])])

RefCrc32(data) ==
    XorW(RefCrcRun(data, [pos |-> 1, reg |-> <<255, 255, 255, 255>>]),
         <<255, 255, 255, 255>>)

\* Adler-32 from its definition: a = 1 + the sum of the bytes, b = the sum
\* of the values a takes, both modulo 65521.
RECURSIVE RefAdlerRun(_, _)
RefAdlerRun(data, s) ==
    IF s.pos > Len(data) THEN s
    ELSE RefAdlerRun(data, [pos |-> s.pos + 1, a |-> s.a + data[s.pos],
                            b |-> s.b + s.a + data[s.pos]])

RefAdler32(data) ==
    LET s == RefAdlerRun(data, [pos |-> 1, a |-> 1, b |-> 0])
        a == s.a % 65521
        b == s.b % 65521
    IN  <<b \div 256, b % 256, a \div 256, a % 256>>

\* Bit k (from 1) of a byte sequence, the low bit of each byte first; 0
\* past the end.
BitAt(z, k) ==
    IF k > 8 * Len(z) THEN 0 ELSE (z[((k - 1) \div 8) + 1] \div (2 ^ ((k - 1) % 8))) % 2

RECURSIVE ReadLsb(_, _, _)
ReadLsb(z, k, n) == IF n = 0 THEN 0 ELSE BitAt(z, k) + 2 * ReadLsb(z, k + 1, n - 1)

RECURSIVE ReadMsb(_, _, _)
ReadMsb(z, k, n) ==
    IF n = 0 THEN 0 ELSE 2 * ReadMsb(z, k, n - 1) + BitAt(z, k + n - 1)

\* The fixed Huffman code starting at bit k: <<symbol, code length>>, or
\* <<-1, 0>> for a bit pattern that is no code.
ReadSymbol(z, k) ==
    LET v7 == ReadMsb(z, k, 7)
        v8 == ReadMsb(z, k, 8)
        v9 == ReadMsb(z, k, 9)
    IN  IF v7 <= 23 THEN <<256 + v7, 7>>
        ELSE IF v8 >= 48 /\ v8 <= 191 THEN <<v8 - 48, 8>>
        ELSE IF v8 >= 192 /\ v8 <= 199 THEN <<280 + (v8 - 192), 8>>
        ELSE IF v9 >= 400 THEN <<144 + (v9 - 400), 9>>
        ELSE <<-1, 0>>

\* One block of fixed Huffman codes from bit s.pos: literals are appended,
\* a length/distance pair copies from the output, symbol 256 ends the block.
RECURSIVE InflateFixed(_, _)
InflateFixed(z, s) ==
    IF ~s.ok \/ s.done THEN s
    ELSE IF s.pos > 8 * Len(z) THEN [s EXCEPT !.ok = FALSE]
    ELSE LET sym == ReadSymbol(z, s.pos)
             p1 == s.pos + sym[2]
         IN  IF sym[1] < 0 \/ sym[1] > 285 THEN [s EXCEPT !.ok = FALSE]
             ELSE IF sym[1] < 256
             THEN InflateFixed(z, [ok |-> TRUE, done |-> FALSE, pos |-> p1,
                                   out |-> Append(s.out, sym[1])])
             ELSE IF sym[1] = 256
             THEN [ok |-> TRUE, done |-> TRUE, pos |-> p1, out |-> s.out]
             ELSE LET lc == sym[1] - 256
                      length == LengthBase[lc] + ReadLsb(z, p1, LengthExtra[lc])
                      p2 == p1 + LengthExtra[lc]
                      dc == ReadMsb(z, p2, 5) + 1
                      p3 == p2 + 5
                  IN  IF dc > 30 THEN [s EXCEPT !.ok = FALSE]
                      ELSE LET dist == DistBase[dc] + ReadLsb(z, p3, DistExtra[dc])
                               from == Len(s.out) - dist
                           IN  IF dist > Len(s.out) THEN [s EXCEPT !.ok = FALSE]
                               ELSE InflateFixed(z,
                                       [ok |-> TRUE, done |-> FALSE,
                                        pos |-> p3 + DistExtra[dc],
                                        out |-> s.out \o
                                            [j \in 1..length |->
                                                s.out[from + 1 + ((j - 1) % dist)]]])

\* A zlib stream read back: the header (deflate, no dictionary, check bits),
\* one final block of type 01, padding to the byte, the Adler-32 of the
\* output, and nothing after it.
ReadZlib(z) ==
    IF Len(z) < 6 \/ z[1] % 16 # 8 \/ (z[1] * 256 + z[2]) % 31 # 0 \/ (z[2] \div 32) % 2 # 0
    THEN [ok |-> FALSE, data |-> <<>>]
    ELSE IF BitAt(z, 17) # 1 \/ ReadLsb(z, 18, 2) # 1
    THEN [ok |-> FALSE, data |-> <<>>]
    ELSE LET s == InflateFixed(z, [ok |-> TRUE, done |-> FALSE, pos |-> 20, out |-> <<>>])
             used == (s.pos - 1 + 7) \div 8
         IN  IF s.ok /\ s.done /\ Len(z) = used + 4 /\ Slice(z, used + 1, 4) = RefAdler32(s.out)
             THEN [ok |-> TRUE, data |-> s.out]
             ELSE [ok |-> FALSE, data |-> <<>>]

\* The number of channels of a colour type at bit depth 8 (0 if unknown).
Channels(color_type) == IF color_type = 2 THEN 3 ELSE IF color_type = 6 THEN 4 ELSE 0

\* Scanlines to pixels: every line is a filter byte 0 and width pixels.
ReadScanlines(raw, width, height, channels) ==
    LET stride == 1 + width * channels
    IN  IF Len(raw) # height * stride
           \/ \E y \in 1..height : raw[(y - 1) * stride + 1] # 0
        THEN [ok |-> FALSE, pixels |-> <<>>]
        ELSE [ok |-> TRUE,
              pixels |-> [y \in 1..height |->
                            [x \in 1..width |->
                                [k \in 1..channels |->
                                    raw[(y - 1) * stride + 1 + (x - 1) * channels + k]]]]]

\* A whole image read back: IHDR first, one IDAT, IEND last, every CRC
\* right, bit depth 8, no interlace, then the pixels.
ReadImage(png) ==
    LET r == ReadPng(png)
        c == r.chunks
        bad == [ok |-> FALSE, width |-> 0, height |-> 0, color_type |-> 0, pixels |-> <<>>]
    IN  IF ~r.ok \/ Len(c) # 3 THEN bad
        ELSE IF c[1].type # <<73, 72, 68, 82>> \/ c[2].type # <<73, 68, 65, 84>>
                \/ c[3].type # <<73, 69, 78, 68>> \/ c[1].length # 13 \/ c[3].length # 0
        THEN bad
        ELSE IF \E i \in 1..3 : c[i].crc # RefCrc32(c[i].type \o c[i].data) THEN bad
        ELSE IF c[1].data[1] > 127 \/ c[1].data[5] > 127 \/ c[1].data[9] # 8
                \/ Channels(c[1].data[10]) = 0 \/ Slice(c[1].data, 11, 3) # <<0, 0, 0>>
        THEN bad
        ELSE LET w == ReadU32(c[1].data, 1)
                 h == ReadU32(c[1].data, 5)
                 z == ReadZlib(c[2].data)
                 px == ReadScanlines(z.data, w, h, Channels(c[1].data[10]))
             IN  IF ~z.ok \/ ~px.ok THEN bad
                 ELSE [ok |-> TRUE, width |-> w, height |-> h,
                       color_type |-> c[1].data[10], pixels |-> px.pixels]

(***************************************************************************)
(* The claims.  A call is valid when it meets the encoder's preconditions: *)
(* positive dimensions, a buffer of height rows of width pixels, pixels of *)
(* the arity of the colour mode, channel values in 0..255.                 *)
(***************************************************************************)
Encoders == {"create_png", "create_image_from_pixels"}

ValidPixel(p, arity) == Len(p) = arity /\ \A k \in 1..arity : p[k] \in 0..255

WellShaped ==
    /\ Len(call.pixels) = call.height
    /\ \A y \in 1..Len(call.pixels) : Len(call.pixels[y]) = call.width

ValidCall ==
    /\ call.op \in Encoders
    /\ call.width > 0 /\ call.height > 0
    /\ call.op = "create_png" => ValidPixel(call.color_rgb, 3)
    /\ call.op = "create_image_from_pixels" =>
            /\ WellShaped
            /\ \A y \in 1..Len(call.pixels) : \A x \in 1..Len(call.pixels[y]) :
                    ValidPixel(call.pixels[y][x], 4)

\* The number of channels of the call's colour mode.
CallChannels == IF call.op = "create_png" THEN 3 ELSE 4

\* The pixel the caller gave for column x of row y.
CallPixel(y, x) == IF call.op = "create_png" THEN call.color_rgb ELSE call.pixels[y][x]

\* C1: for every valid input the bytes returned by create_png and by
\* create_image_from_pixels begin with the signature 89 50 4E 47 0D 0A 1A 0A
\* and are the signature, one IHDR chunk, one IDAT chunk and one IEND chunk
\* of payload length 0, in that order, with nothing before, between or
\* after them.
PngIsSignatureIhdrIdatIend ==
    ValidCall =>
        /\ result.ok
        /\ Len(result.bytes) >= 8
        /\ Slice(result.bytes, 1, 8) = <<137, 80, 78, 71, 13, 10, 26, 10>>
        /\ LET r == ReadPng(result.bytes)
           IN  /\ r.ok
               /\ r.pos = Len(result.bytes) + 1
               /\ Len(r.chunks) = 3
               /\ r.chunks[1].type = <<73, 72, 68, 82>>
               /\ r.chunks[2].type = <<73, 68, 65, 84>>
               /\ r.chunks[3].type = <<73, 69, 78, 68>>
               /\ r.chunks[3].length = 0

\* A valid RGBA call has returned a file of three chunks.
PngStructureWitness ==
    /\ ValidCall /\ call.op = "create_image_from_pixels"
    /\ call.width = 2 /\ call.height = 1
    /\ result.ok /\ Len(ReadPng(result.bytes).chunks) = 3

\* C2: the IHDR payload is 13 bytes: the width argument and then the height
\* argument as 4-byte big-endian unsigned integers, bit depth 8, colour
\* type 2 for create_png and 6 for create_image_from_pixels, then
\* compression, filter and interlace method 0.
IhdrPayloadIsTheArguments ==
    (call.op \in Encoders /\ result.ok) =>
        LET r == ReadPng(result.bytes)
        IN  /\ r.ok /\ Len(r.chunks) >= 1
            /\ r.chunks[1].type = <<73, 72, 68, 82>>
            /\ LET d == r.chunks[1].data
               IN  /\ Len(d) = 13
                   /\ \A k \in 1..13 : d[k] \in 0..255
                   /\ ReadU32(d, 1) = call.width
                   /\ ReadU32(d, 5) = call.height
                   /\ d[9] = 8
                   /\ d[10] = (IF call.op = "create_png" THEN 2 ELSE 6)
                   /\ d[11] = 0 /\ d[12] = 0 /\ d[13] = 0

\* A valid call whose width and height differ has returned its file.
IhdrPayloadWitness ==
    /\ ValidCall /\ call.op = "create_png"
    /\ call.width = 1 /\ call.height = 2
    /\ result.ok /\ ReadPng(result.bytes).chunks[1].length = 13

\* The layout of one chunk: length field, type, payload, CRC-32 of type and
\* payload, and nothing else.
Framed(chunk, chunk_type, data) ==
    /\ Len(chunk) = 12 + Len(data)
    /\ ReadU32(chunk, 1) = Len(data)
    /\ Slice(chunk, 5, 4) = chunk_type
    /\ Slice(chunk, 9, Len(data)) = data
    /\ Slice(chunk, 9 + Len(data), 4) = RefCrc32(chunk_type \o data)

\* C3: for every type tag and payload create_chunk returns 12 + len(payload)
\* bytes: the payload byte count as a big-endian uint32, the 4-byte tag, the
\* payload unchanged, and the CRC32 of tag and payload as a big-endian
\* uint32; and so are the IHDR, IDAT and IEND chunks of every image.
ChunkIsLengthTypeDataCrc ==
    /\ call.op = "create_chunk" => Framed(result.bytes, call.chunk_type, call.data)
    /\ (call.op \in Encoders /\ result.ok) =>
            LET r == ReadPng(result.bytes)
                c == r.chunks
                n(i) == 12 + Len(c[i].data)
            IN  /\ r.ok /\ Len(c) = 3
                /\ Len(result.bytes) = 8 + n(1) + n(2) + n(3)
                /\ Framed(Slice(result.bytes, 9, n(1)), c[1].type, c[1].data)
                /\ Framed(Slice(result.bytes, 9 + n(1), n(2)), c[2].type, c[2].data)
                /\ Framed(Slice(result.bytes, 9 + n(1) + n(2), n(3)), c[3].type, c[3].data)
                /\ c[1].type = <<73, 72, 68, 82>>
                /\ c[2].type = <<73, 68, 65, 84>>
                /\ c[3].type = <<73, 69, 78, 68>>

\* create_chunk has framed a payload of the largest size under a type tag
\* that is none of the encoder's.
ChunkFramingWitness ==
    /\ call.op = "create_chunk" /\ call.chunk_type = <<116, 69, 88, 116>>
    /\ Len(call.data) = MaxPayload /\ call.data[1] = 255
    /\ Len(result.bytes) = 12 + MaxPayload

\* The scanline stream a valid call must hand to the compressor: position
\* by position, a filter byte 0 and then the channel bytes of each row.
IsScanlineStream(raw) ==
    LET stride == 1 + call.width * CallChannels
    IN  /\ Len(raw) = call.height * stride
        /\ \A y \in 1..call.height :
              /\ raw[(y - 1) * stride + 1] = 0
              /\ \A x \in 1..call.width : \A k \in 1..CallChannels :
                    raw[(y - 1) * stride + 1 + (x - 1) * CallChannels + k]
                        = CallPixel(y, x)[k]

\* C4: the stream handed to the compressor is, row by row from the top, a
\* filter byte 0 and the row's channel bytes in pixel order without padding;
\* for a valid image its length is height * (1 + width * channels), with 3
\* channels for create_png and 4 for create_image_from_pixels, and it has as
\* many filter bytes as the height declared in IHDR.
CompressorGetsFilteredRows ==
    ValidCall =>
        /\ Len(compress_calls) = 1
        /\ IsScanlineStream(compress_calls[1])
        /\ result.ok
        /\ LET r == ReadPng(result.bytes)
           IN  /\ r.ok /\ Len(r.chunks) >= 1 /\ Len(r.chunks[1].data) = 13
               /\ Len(compress_calls[1]) =
                    ReadU32(r.chunks[1].data, 5) * (1 + call.width * CallChannels)

\* A valid call of two rows of different pixels has compressed its stream.
ScanlineStreamWitness ==
    /\ ValidCall /\ call.op = "create_image_from_pixels"
    /\ call.height = 2 /\ call.width = 1
    /\ call.pixels[1] # call.pixels[2]
    /\ Len(compress_calls) = 1 /\ Len(compress_calls[1]) = 10

\* C5: round trip: for every valid input, reading the returned file back
\* (its chunks, the decompressed IDAT payload, the filter byte stripped from
\* each scanline, the bytes regrouped by the width, height and colour type
\* of IHDR) gives the input pixel buffer; for create_png it gives height
\* rows of width copies of the colour.
DecodedPixelsAreTheInput ==
    ValidCall =>
        /\ result.ok
        /\ LET im == ReadImage(result.bytes)
           IN  /\ im.ok
               /\ im.width = call.width /\ im.height = call.height
               /\ Channels(im.color_type) = CallChannels
               /\ im.pixels = [y \in 1..call.height |->
                                 [x \in 1..call.width |-> CallPixel(y, x)]]

\* The image of one pixel has been read back as that pixel, from RGBA.
RoundTripWitness ==
    /\ ValidCall /\ call.op = "create_image_from_pixels"
    /\ call.width = 1 /\ call.height = 1
    /\ result.ok /\ ReadImage(result.bytes).pixels = call.pixels

\* C7: corruption detection: for every chunk create_chunk makes of a
\* non-empty payload, replacing any one payload byte by any other value makes
\* the CRC32 recomputed over the type tag and the corrupted payload differ
\* from the CRC field stored in the chunk.
CorruptedPayloadFailsCrc ==
    (call.op = "create_chunk" /\ Len(call.data) > 0) =>
        LET chunk == result.bytes
            n == Len(chunk) - 12
            tag == Slice(chunk, 5, 4)
            payload == Slice(chunk, 9, n)
            stored == Slice(chunk, 9 + n, 4)
        IN  /\ n > 0
            /\ \A i \in 1..n : \A v \in 0..255 :
                  v # payload[i] =>
                      crc32(tag \o [payload EXCEPT ![i] = v]) # stored

\* A chunk of the largest payload has been made, and its checksum does not
\* fit the payload with the middle byte changed from 128 to 127.
CorruptionWitness ==
    /\ call.op = "create_chunk" /\ call.chunk_type = <<73, 68, 65, 84>>
    /\ Len(call.data) = MaxPayload /\ call.data[2] = 128
    /\ Len(result.bytes) = 12 + MaxPayload
    /\ RefCrc32(call.chunk_type \o [call.data EXCEPT ![2] = 127])
            # Slice(result.bytes, 9 + MaxPayload, 4)

\* C8: the encoder fails with its dimension error, and returns no bytes,
\* whenever width <= 0 or height <= 0: for width 0 and height 0 (the sheet
\* of an empty frame list) as for negative values.
NonPositiveDimensionFails ==
    (call.op \in Encoders /\ (call.width <= 0 \/ call.height <= 0)) =>
        ~result.ok /\ result.bytes = <<>>

\* C9: create_image_from_pixels fails, and returns no bytes, whenever the
\* number of rows differs from the height argument or some row's length from
\* the width argument; it never returns a file whose IHDR width and height
\* disagree with the scanlines and pixels that IDAT holds.
MalformedBufferFails ==
    call.op = "create_image_from_pixels" =>
        /\ ~WellShaped => ~result.ok /\ result.bytes = <<>>
        /\ result.ok => ReadImage(result.bytes).ok

\* What can go wrong in a call of the encoder.
NegativeDimension == call.width < 0 \/ call.height < 0

ArityMismatch ==
    \/ call.op = "create_png" /\ Len(call.color_rgb) # 3
    \/ /\ call.op = "create_image_from_pixels"
       /\ \E y \in 1..Len(call.pixels) : \E x \in 1..Len(call.pixels[y]) :
              Len(call.pixels[y][x]) # 4

\* A channel value outside 0..255 in a pixel that is written to a scanline.
ChannelOutOfRange ==
    \/ /\ call.op = "create_png" /\ call.width > 0 /\ call.height > 0
       /\ \E k \in 1..Len(call.color_rgb) : call.color_rgb[k] \notin 0..255
    \/ /\ call.op = "create_image_from_pixels"
       /\ \E y \in 1..Len(call.pixels) : \E x \in 1..Len(call.pixels[y]) :
              \E k \in 1..Len(call.pixels[y][x]) : call.pixels[y][x][k] \notin 0..255

\* C10 as the spec has it: the encoder fails whenever a pixel's arity
\* disagrees with the colour mode, before any output, and the dimension
\* error, the buffer error and the arity error are the only failures: none
\* arises for a channel value outside 0..255.
OnlyTheNamedErrors ==
    call.op \in Encoders =>
        /\ ArityMismatch => ~result.ok /\ result.bytes = <<>>
        /\ ~result.ok => result.error \in {"struct.error", "ValueError:unpack"}

\* C10, amended: the encoder fails whenever a pixel's arity disagrees with
\* the colour mode, with nothing returned and nothing handed to the
\* compressor, and with the unpacking error unless a negative dimension or a
\* channel out of range fails first; its failures are the packing error of
\* a negative dimension, the unpacking error of a wrong arity, and the
\* bytes() error of a channel value outside 0..255.
FailuresOfTheEncoder ==
    call.op \in Encoders =>
        /\ ArityMismatch =>
              /\ ~result.ok /\ result.bytes = <<>> /\ compress_calls = <<>>
              /\ (~NegativeDimension /\ ~ChannelOutOfRange) =>
                      result.error = "ValueError:unpack"
        /\ ~result.ok =>
              /\ result.bytes = <<>> /\ compress_calls = <<>>
              /\ \/ result.error = "struct.error" /\ NegativeDimension
                 \/ result.error = "ValueError:unpack" /\ ArityMismatch
                 \/ result.error = "ValueError:bytes" /\ ChannelOutOfRange

\* A buffer whose second pixel has three channels has been refused.
ArityFailureWitness ==
    /\ call.op = "create_image_from_pixels" /\ ~NegativeDimension
    /\ Len(call.pixels) = 1 /\ Len(call.pixels[1]) = 2
    /\ Len(call.pixels[1][2]) = 3
    /\ ~result.ok /\ result.error = "ValueError:unpack"

(***************************************************************************)
(* The sprite sheet.  Frame indices and coordinates count from 0, as in    *)
(* the code; the frames are read from the objects the caller passed in.    *)
(***************************************************************************)
SheetCalled == sheet_call.op = "create_spritesheet"

\* Frame i of the call, as the caller's objects held it before the call.
CallerFrame(i) ==
    LET f == FrameHeap[sheet_call.frames[i + 1]]
    IN  [y \in 1..Len(f) |-> FrameHeap[f[y]]]

\* (x, y) is a pixel of frame i that lies within a cell.
InFrame(i, x, y) ==
    /\ y >= 0 /\ y < Len(CallerFrame(i)) /\ y < sheet_call.frame_height
    /\ x >= 0 /\ x < Len(CallerFrame(i)[y + 1]) /\ x < sheet_call.frame_width

\* ceil(n / 6)
CeilSixth(n) == CHOOSE r \in 0..n : 6 * r >= n /\ 6 * r < n + 6

\* The pixel of a buffer at row r and column c, or <<>> where it has none.
PixelAt(buffer, r, c) ==
    IF r >= 0 /\ r < Len(buffer) /\ c >= 0 /\ c < Len(buffer[r + 1])
    THEN buffer[r + 1][c + 1] ELSE <<>>

\* C11: create_spritesheet lays the frames out row-major in 6 columns: the
\* sheet is 6 * frame_width wide and ceil(n / 6) * frame_height high, and
\* for every frame i and every (x, y) with y < min(rows of frame i,
\* frame_height) and x < min(length of row y, frame_width) the sheet pixel at
\* row (i div 6) * frame_height + y, column (i mod 6) * frame_width + x is
\* frame i's pixel at (x, y); so it is in the buffer given to the encoder
\* and in the image read back from the bytes returned.
FramesAreLaidOutInSixColumns ==
    SheetCalled =>
        LET n == Len(sheet_call.frames)
            fw == sheet_call.frame_width
            fh == sheet_call.frame_height
            im == ReadImage(result.bytes)
        IN  /\ call.op = "create_image_from_pixels"
            /\ call.width = 6 * fw
            /\ call.height = CeilSixth(n) * fh
            /\ (n > 0 /\ fw > 0 /\ fh > 0) =>
                    /\ result.ok /\ im.ok
                    /\ im.width = 6 * fw /\ im.height = CeilSixth(n) * fh
            /\ \A i \in 0..(n - 1) : \A y \in 0..(fh - 1) : \A x \in 0..(fw - 1) :
                  InFrame(i, x, y) =>
                      /\ PixelAt(call.pixels, (i \div 6) * fh + y, (i % 6) * fw + x)
                            = CallerFrame(i)[y + 1][x + 1]
                      /\ PixelAt(im.pixels, (i \div 6) * fh + y, (i % 6) * fw + x)
                            = CallerFrame(i)[y + 1][x + 1]

\* Seven frames in cells of 1 x 2 have made a sheet of two rows of cells,
\* and the seventh frame's pixel is at row 2, column 0.
SixColumnsWitness ==
    /\ SheetCalled /\ Len(sheet_call.frames) = 7
    /\ sheet_call.frame_width = 1 /\ sheet_call.frame_height = 2
    /\ InFrame(6, 0, 0)
    /\ result.ok /\ Len(call.pixels) = 4
    /\ call.pixels[3][1] = CallerFrame(6)[1][1]

\* Some frame of the call has a pixel that belongs at row r, column c.
Covered(r, c) ==
    \E i \in 0..(Len(sheet_call.frames) - 1) :
        \E y \in 0..(sheet_call.frame_height - 1) : \E x \in 0..(sheet_call.frame_width - 1) :
            /\ InFrame(i, x, y)
            /\ r = (i \div 6) * sheet_call.frame_height + y
            /\ c = (i % 6) * sheet_call.frame_width + x

\* C12: in the sheet built by create_spritesheet every pixel that no frame
\* pixel covers is (0, 0, 0, 0): the pixels of the unused cells of the last
\* row of cells, and the pixels of a used cell beyond the rows or the row
\* lengths of its frame; and draw_sprite maps every pattern character that
\* is not a key of the colour table to (0, 0, 0, 0).
UncoveredPixelsAreTransparent ==
    /\ SheetCalled =>
            /\ call.op = "create_image_from_pixels"
            /\ \A r \in 0..(Len(call.pixels) - 1) : \A c \in 0..(Len(call.pixels[r + 1]) - 1) :
                    ~Covered(r, c) => call.pixels[r + 1][c + 1] = <<0, 0, 0, 0>>
            /\ result.ok =>
                    LET im == ReadImage(result.bytes)
                    IN  /\ im.ok
                        /\ \A r \in 0..(im.height - 1) : \A c \in 0..(im.width - 1) :
                                ~Covered(r, c) => im.pixels[r + 1][c + 1] = <<0, 0, 0, 0>>
    /\ sheet_call.op = "draw_sprite" =>
            /\ Len(drawn) = Len(sheet_call.pattern)
            /\ \A l \in 1..Len(sheet_call.pattern) :
                    /\ Len(drawn[l]) = Len(sheet_call.pattern[l])
                    /\ \A c \in 1..Len(sheet_call.pattern[l]) :
                            sheet_call.pattern[l][c] \notin DOMAIN sheet_call.colors
                                => drawn[l][c] = <<0, 0, 0, 0>>

\* Seven frames in cells of 2 x 1: the cells 7 to 11 of the second row are
\* unused, and the cell of the first frame, of one pixel, has an uncovered
\* second pixel.
TransparentPaddingWitness ==
    /\ SheetCalled /\ Len(sheet_call.frames) = 7
    /\ sheet_call.frame_width = 2 /\ sheet_call.frame_height = 1
    /\ sheet_call.frames[1] = FrameId(1)
    /\ result.ok /\ Len(call.pixels) = 2
    /\ ~Covered(0, 1) /\ ~Covered(1, 11)
    /\ call.pixels[1][1] # <<0, 0, 0, 0>>
    /\ call.pixels[2][12] = <<0, 0, 0, 0>>

\* The scenario of four solid 2 x 2 cells of the colours A, B, C and D.
FourSolidCells ==
    /\ SheetCalled
    /\ sheet_call.frames = <<FrameId(4), FrameId(5), FrameId(6), FrameId(7)>>
    /\ sheet_call.frame_width = 2 /\ sheet_call.frame_height = 2

\* C13 as the spec has it: composing four 2 x 2 cells of solid colours A, B,
\* C and D yields a 4 x 4 image, 2 cells per row in 2 rows of cells, that
\* decodes to pixel (0, 0) = A and pixel (3, 3) = D.
FourCellsMakeFourByFour ==
    FourSolidCells =>
        LET im == ReadImage(result.bytes)
        IN  /\ result.ok /\ im.ok
            /\ im.width = 4 /\ im.height = 4
            /\ PixelAt(im.pixels, 0, 0) = Brown
            /\ PixelAt(im.pixels, 3, 3) = Pink

\* C13, amended: composing four 2 x 2 cells of solid colours A, B, C and D
\* yields a 12 x 2 image, one row of 6 cells of which the last two are
\* transparent, that decodes to pixel (0, 0) = A and to D in the fourth
\* cell, whose last pixel is at column 7 of row 1.
FourCellsMakeOneRowOfSix ==
    FourSolidCells =>
        LET im == ReadImage(result.bytes)
        IN  /\ result.ok /\ im.ok
            /\ im.width = 12 /\ im.height = 2
            /\ PixelAt(im.pixels, 0, 0) = Brown
            /\ \A r \in 0..1 : \A c \in 0..11 :
                  PixelAt(im.pixels, r, c) =
                      (IF c < 2 THEN Brown ELSE IF c < 4 THEN White
                       ELSE IF c < 6 THEN Dark ELSE IF c < 8 THEN Pink
                       ELSE <<0, 0, 0, 0>>)

\* The four cells have been composed and the image returned.
FourCellsWitness ==
    /\ FourSolidCells
    /\ result.ok
    /\ ReadImage(result.bytes).pixels[2][8] = Pink

\* What the pixel at row r, column c of a sheet must be when every frame is
\* clipped to its own cell: the pixel of the frame of that cell, or
\* (0, 0, 0, 0) where that frame has none.
CellPixel(r, c) ==
    LET fw == sheet_call.frame_width
        fh == sheet_call.frame_height
        i == (r \div fh) * 6 + (c \div fw)
    IN  IF i < Len(sheet_call.frames) /\ InFrame(i, c % fw, r % fh)
        THEN CallerFrame(i)[(r % fh) + 1][(c % fw) + 1]
        ELSE <<0, 0, 0, 0>>

\* C17: for frames of any shape (fewer or more rows than frame_height, rows
\* shorter or longer than frame_width, ragged rows) and cells of any size
\* from 0 up, the buffer create_spritesheet passes to the encoder has
\* exactly sheet_height rows of exactly sheet_width 4-channel pixels, the
\* width and height it declares; frames are clipped to their cell, so that
\* a pixel of cell i is frame i's or transparent, no write falls outside
\* the sheet, and the frame objects passed in, repeated or not, hold after
\* the call what they held before.
SheetBufferIsRectangular ==
    (SheetCalled /\ sheet_call.frame_width >= 0 /\ sheet_call.frame_height >= 0) =>
        /\ result.error # "IndexError"
        /\ call.op = "create_image_from_pixels"
        /\ call.width = 6 * sheet_call.frame_width
        /\ call.height = CeilSixth(Len(sheet_call.frames)) * sheet_call.frame_height
        /\ Len(call.pixels) = call.height
        /\ \A r \in 0..(Len(call.pixels) - 1) :
              /\ Len(call.pixels[r + 1]) = call.width
              /\ \A c \in 0..(Len(call.pixels[r + 1]) - 1) :
                    /\ Len(call.pixels[r + 1][c + 1]) = 4
                    /\ call.pixels[r + 1][c + 1] = CellPixel(r, c)
        /\ \A id \in DOMAIN FrameHeap : id \in DOMAIN heap /\ heap[id] = FrameHeap[id]

\* A frame of three rows of lengths 3, 1 and 2 has been placed in a cell of
\* 1 x 2, next to an empty frame: its second column has not spilled over.
ClippedFrameWitness ==
    /\ SheetCalled /\ Len(sheet_call.frames) = 2
    /\ sheet_call.frames[1] = FrameId(2)
    /\ sheet_call.frame_width = 1 /\ sheet_call.frame_height = 2
    /\ result.ok /\ Len(call.pixels) = 2 /\ Len(call.pixels[1]) = 6
    /\ call.pixels[1][1] = White /\ call.pixels[2][1] = Pink
    /\ call.pixels[1][2] = <<0, 0, 0, 0>>

(***************************************************************************)
(* The run of the script.                                                  *)
(***************************************************************************)
IsOpen(e) == e.op \in {"open", "open_failed"}

IsWrite(e) == e.op \in {"write", "write_failed"}

IoFailed(e) == e.op \in {"open_failed", "write_failed", "close_failed"}

CompletePng(data) ==
    /\ Len(data) = 4
    /\ data[1].chunk = "signature"
    /\ data[2].chunk = "IHDR"
    /\ data[3].chunk = "IDAT"
    /\ data[4].chunk = "IEND"

SummaryPrinted ==
    \E n \in 1 .. Len(stdout) :
        stdout[n].text = "All sprite sheets generated successfully!"

\* C14: the run opens and writes the files in the order cow, sheep, goat,
\* alpaca, player, projectiles, each at most once; when opening or writing
\* file k fails, that is the last call the run makes on any file, the
\* summary line is never printed, and every file before k holds the complete
\* PNG that was written to it.
IoFailureHaltsTheRun ==
    LET opens == SelectSeq(io, IsOpen)
        writes == SelectSeq(io, IsWrite)
    IN  /\ Len(opens) <= Len(FileNames)
        /\ \A i \in 1 .. Len(opens) : opens[i].sprite = i
        /\ \A i \in 1 .. Len(writes) : writes[i].sprite = i
        /\ \A p \in 1 .. Len(io) :
            IoFailed(io[p]) =>
                /\ p = Len(io)
                /\ ~SummaryPrinted
                /\ \A j \in 1 .. (io[p].sprite - 1) :
                    /\ files[j] = Stored(pngs[j])
                    /\ CompletePng(files[j].data)

\* Writing goat.png has failed: cow.png is complete and alpaca.png, which
\* existed before the run, is untouched.
FailedAtGoatWitness ==
    /\ Len(io) > 0
    /\ io[Len(io)] = IoCall("write_failed", 3)
    /\ pc.failed
    /\ files[1] = Stored(SpritePng(1))
    /\ before[4] = OldFile
    /\ files[4] = OldFile

\* C15: at most one output file is open at any time, none is open while a
\* sprite is being generated, a file that was opened is closed again once
\* its with statement is left, whether the write succeeded or raised, and
\* none is open when the run has ended.
HandlesAreScoped ==
    /\ Cardinality(handles) <= 1
    /\ handles \subseteq {pc.sprite}
    /\ pc.step \in {"print_generating", "build"} => handles = {}
    /\ pc.step \in {"print_created", "print_summary", "done"} => handles = {}
    /\ pc.failed => handles = {}
    /\ \A p \in 1 .. Len(io) :
        io[p].op \in {"close", "write_failed", "close_failed"}
            => io[p].sprite \notin handles

\* The write of player.png has raised after its file was opened, and the
\* four files before it were opened and closed.
WriteFailureClosesWitness ==
    /\ pc.failed
    /\ pc.sprite = 5
    /\ pc.step = "write"
    /\ Len(io) = 14
    /\ io[13] = IoCall("open", 5)
    /\ io[14] = IoCall("write_failed", 5)
    /\ io[12] = IoCall("close", 4)
    /\ handles = {}

\* C16: the width and height stated in each "Created" line are the width
\* and height in the IHDR of the sheet written to that sprite's file.
AnnouncedSizeIsTheSheetSize ==
    \A n \in 1 .. Len(stdout) :
        stdout[n].text = "Created" =>
            LET data == files[stdout[n].sprite].data
            IN  /\ CompletePng(data)
                /\ stdout[n].width = data[2].width
                /\ stdout[n].height = data[2].height

Closed(k) == \E p \in 1 .. Len(io) : io[p] = IoCall("close", k)

\* C18: a sprite's file is opened, and so truncated, only when the complete
\* PNG of that sprite has been built; its "Created" line is printed only
\* when the file has been written and closed; when building sprite k fails,
\* file k and every later file are as they were before the run; and a file
\* that has been written and closed holds the complete PNG of its sprite,
\* signature through IEND.
FileIsTouchedOnlyAfterBuild ==
    /\ \A k \in Sprites :
        /\ (k \in handles \/ files[k] # before[k] \/
            \E p \in 1 .. Len(io) : io[p].sprite = k)
                => /\ CompletePng(pngs[k])
                   /\ pngs[k] = SpritePng(k)
        /\ Closed(k) =>
            /\ CompletePng(files[k].data)
            /\ files[k] = Stored(pngs[k])
    /\ \A n \in 1 .. Len(stdout) :
        stdout[n].text = "Created" =>
            /\ \E p \in 1 .. Len(io) : io[p] = IoCall("write", stdout[n].sprite)
            /\ Closed(stdout[n].sprite)
            /\ stdout[n].sprite \notin handles
    /\ (pc.failed /\ pc.step = "build") =>
        \A k \in Sprites : k >= pc.sprite => files[k] = before[k]

\* Building the alpaca sheet has failed: goat.png is written and announced,
\* and the alpaca.png of an earlier run is still there.
BuildFailureWitness ==
    /\ pc.failed
    /\ pc.step = "build"
    /\ pc.sprite = 4
    /\ before[4] = OldFile
    /\ files[4] = OldFile
    /\ before[3] = OldFile
    /\ files[3] = Stored(SpritePng(3))
    /\ stdout[Len(stdout) - 1] = Line("Created", 3, Announced[3])

====
